---- MODULE Spec2Model ----
(***************************************************************************)
(* A model of the COG reader core: CogTiff (src/src/cog.tiff.ts) and       *)
(* CogTiffImage (src/unnamed/part_000).                                    *)
(*                                                                         *)
(* The Source is a byte-addressable file.  A fetched buffer (DataView) is  *)
(* a window [off, off+len) onto that file, so a view is the record         *)
(* [off, len] and reading byte i of it reads the file at off+i; a read     *)
(* outside the window is the RangeError a DataView raises.                 *)
(*                                                                         *)
(* Asynchrony: every `await source.fetch(...)` puts a request in           *)
(* `inflight`; an arrival action completes one request, in any order, and  *)
(* runs the awaiting code up to its next await.                            *)
(*                                                                         *)
(* Values of tags are records [k, v] with k in {"null","num","arr","str"}  *)
(* and v always a sequence of integers (a scalar n is <<n>>).              *)
(* Doubles are stored by the model's files as fixed-point hundredths in    *)
(* an 8-byte little-endian integer.                                        *)
(***************************************************************************)
EXTENDS Integers, Sequences, FiniteSets, TLC

(***************************************************************************)
(* Bounds of the model.                                                    *)
(***************************************************************************)
\* number of distinct callers of CogTiff.init()
MaxInitCallers == 2
\* number of image operations (getTile, hasTile, ...) running at once
MaxTasks == 1
\* number of image.fetch(tag) calls running at once
MaxFetchTasks == 2

(***************************************************************************)
(* Program constants.                                                      *)
(***************************************************************************)
DefaultReadSize == 16384
IfdProbeSize == 1024
GhostMaxSize == 16384
BigTiffPointerSize == 8

TiffEndianLittle == 18761
TiffVersionTiff == 42
TiffVersionBigTiff == 43

TagTiffConfig == [offset |-> 2, ifd |-> 12, pointer |-> 4]
TagTiffBigConfig == [offset |-> 8, ifd |-> 20, pointer |-> 8]

NewSubFileType == 254
ImageWidth == 256
ImageHeight == 257
BitsPerSample == 258
Compression == 259
StripOffsets == 273
SamplesPerPixel == 277
StripByteCounts == 279
TileWidth == 322
TileHeight == 323
TileOffsets == 324
TileByteCounts == 325
SampleFormat == 339
JPEGTables == 347
ModelPixelScale == 33550
ModelTiePoint == 33922
ModelTransformation == 34264
GeoKeyDirectory == 34735
GeoDoubleParams == 34736
GeoAsciiParams == 34737

\* TIFF data type codes and their byte widths
TypeByte == 1
TypeAscii == 2
TypeShort == 3
TypeLong == 4
TypeUndefined == 7
TypeDouble == 12
TypeLong8 == 16

getTiffTagSize(dataType) ==
    CASE dataType \in {TypeByte, TypeAscii, TypeUndefined} -> 1
      [] dataType = TypeShort -> 2
      [] dataType = TypeLong -> 4
      [] dataType \in {TypeDouble, TypeLong8} -> 8
      [] OTHER -> 0

\* Compression codes that map to a mime type
CompressionNone == 1
CompressionLzw == 5
CompressionJpeg == 7
CompressionDeflate == 8
CompressionWebp == 50001
TiffCompression == {CompressionNone, CompressionLzw, CompressionJpeg,
                    CompressionDeflate, CompressionWebp}

\* The tag ids stored as index-addressed arrays (Offset tags)
OffsetArrayTags == {TileOffsets, TileByteCounts, StripOffsets, StripByteCounts}

(***************************************************************************)
(* Values.                                                                 *)
(***************************************************************************)
Null == [k |-> "null", v |-> <<>>]
Num(n) == [k |-> "num", v |-> <<n>>]
Arr(s) == [k |-> "arr", v |-> s]
Str(s) == [k |-> "str", v |-> s]
IsNull(x) == x.k = "null"
IsNum(x) == x.k = "num"
\* a failed call: a thrown Error / rejected promise
Err(what) == [k |-> "error", v |-> <<>>, what |-> what]
IsErr(x) == x.k = "error"
\* a finished call: the operation, its arguments, its result and the Source
\* fetches it issued
Done(op, img, x, y, res, log) ==
    [op |-> op, img |-> img, x |-> x, y |-> y, res |-> res, log |-> log]
NoDone == Done("none", 0, 0, 0, Null, {})
Bool(b) == [k |-> "bool", v |-> <<IF b THEN 1 ELSE 0>>]

Min(a, b) == IF a <= b THEN a ELSE b
Max(a, b) == IF a >= b THEN a ELSE b
\* Math.ceil(a / b) for a >= 0, b > 0
CeilDiv(a, b) == (a + b - 1) \div b

(***************************************************************************)
(* Test files, built byte by byte.                                         *)
(***************************************************************************)
\* n as w little-endian bytes
RECURSIVE LE(_, _)
LE(n, w) == IF w = 0 THEN <<>> ELSE <<n % 256>> \o LE(n \div 256, w - 1)

RECURSIVE Cat(_)
Cat(ss) == IF ss = <<>> THEN <<>> ELSE Head(ss) \o Cat(Tail(ss))

\* a classic IFD entry: id, type, count, 4 value bytes
Entry(id, type, count, val4) == Cat(<<LE(id, 2), LE(type, 2), LE(count, 4), val4>>)
EShort(id, n) == Entry(id, TypeShort, 1, LE(n, 2) \o <<0, 0>>)
ELong(id, n) == Entry(id, TypeLong, 1, LE(n, 4))
\* an entry whose payload lives at file offset `at`
EPtr(id, type, count, at) == Entry(id, type, count, LE(at, 4))
\* a classic IFD: tag count, the entries, the next-IFD pointer
Ifd(entries, next) == Cat(<<LE(Len(entries), 2), Cat(entries), LE(next, 4)>>)
\* a BigTIFF entry and IFD
EBig(id, type, count, n) == Cat(<<LE(id, 2), LE(type, 2), LE(count, 8), LE(n, 8)>>)
IfdBig(entries, next) == Cat(<<LE(Len(entries), 8), Cat(entries), LE(next, 8)>>)

Seg(at, bytes) == [at |-> at, bytes |-> bytes]
\* byte o of a file given as segments; bytes no segment covers are 0
SegByte(segs, o) ==
    LET S == {s \in segs : s.at <= o /\ o < s.at + Len(s.bytes)}
    IN  IF S = {} THEN 0 ELSE LET s == CHOOSE s \in S : TRUE IN s.bytes[o - s.at + 1]
MkFile(size, ghostLeader, segs) ==
    [size |-> size, ghostLeader |-> ghostLeader, segs |-> segs]

\* A tiled pyramid: a 4x4 base image in 2x2 tiles (TileOffsets and
\* TileByteCounts are arrays of 4) with a pixel scale of 1.00, and overviews
\* of 2x2 and 1x1 pixels of one tile each (their offsets are inline).
\* `first` is the offset of the first IFD; `offs` and `counts` are the base
\* image's tile arrays.  The 4 bytes before a tile body are its leader.
Overview(w, next) ==
    Ifd(<< ELong(NewSubFileType, 1),
           EShort(ImageWidth, w), EShort(ImageHeight, w),
           EShort(Compression, CompressionDeflate),
           EShort(TileWidth, 2), EShort(TileHeight, 2),
           ELong(TileOffsets, 460), ELong(TileByteCounts, 4) >>, next)
TiledFile(hdr, first, ghostLeader, offs, counts) ==
    MkFile(464, ghostLeader,
      { Seg(0, hdr),
        Seg(first, Ifd(<< EShort(ImageWidth, 4), EShort(ImageHeight, 4),
                          EShort(Compression, CompressionDeflate),
                          EShort(TileWidth, 2), EShort(TileHeight, 2),
                          EPtr(TileOffsets, TypeLong, 4, 328),
                          EPtr(TileByteCounts, TypeLong, 4, 344),
                          EPtr(ModelPixelScale, TypeDouble, 3, 360) >>, first + 104)),
        Seg(first + 104, Overview(2, first + 208)),
        Seg(first + 208, Overview(1, 0)),
        Seg(328, Cat(<<LE(offs[1], 4), LE(offs[2], 4), LE(offs[3], 4), LE(offs[4], 4)>>)),
        Seg(344, Cat(<<LE(counts[1], 4), LE(counts[2], 4), LE(counts[3], 4), LE(counts[4], 4)>>)),
        Seg(360, Cat(<<LE(100, 8), LE(100, 8), LE(0, 8)>>)),
        Seg(396, LE(6, 4)), Seg(400, <<1, 2, 3, 4, 5, 6>>),
        Seg(436, LE(7, 4)), Seg(440, <<7, 6, 5, 4, 3, 2, 1>>),
        Seg(456, LE(4, 4)), Seg(460, <<9, 9, 9, 9>>) })

ClassicHeader(first) == <<73, 73, 42, 0>> \o LE(first, 4)

\* An untiled two-image file without geo tags: three strips (arrays) in the
\* base image, the second of them empty; the second image is JPEG-compressed,
\* with one strip (inline) and its JPEGTables stored out of line.
StripFile(hdr) ==
    MkFile(216, 0,
      { Seg(0, hdr),
        Seg(8, Ifd(<< EShort(ImageWidth, 4), EShort(ImageHeight, 3),
                      EShort(Compression, CompressionNone),
                      EPtr(StripOffsets, TypeLong, 3, 160),
                      EPtr(StripByteCounts, TypeLong, 3, 172) >>, 76)),
        Seg(76, Ifd(<< EShort(ImageWidth, 2), EShort(ImageHeight, 1),
                       EShort(Compression, CompressionJpeg),
                       ELong(StripOffsets, 212),
                       ELong(StripByteCounts, 4),
                       EPtr(JPEGTables, TypeUndefined, 6, 184) >>, 0)),
        Seg(160, Cat(<<LE(200, 4), LE(204, 4), LE(208, 4)>>)),
        Seg(172, Cat(<<LE(4, 4), LE(0, 4), LE(3, 4)>>)),
        Seg(184, <<255, 216, 1, 2, 255, 217>>),
        Seg(200, <<1, 1, 1, 1>>), Seg(208, <<3, 3, 3>>),
        Seg(212, <<255, 216, 5, 5>>) })

\* A tiled JPEG image of one 2x2 tile: the tile arrays are inline, the
\* JPEGTables (6 bytes) are stored out of line, the tile payload has 5 bytes.
JpegFile(hdr) ==
    MkFile(148, 0,
      { Seg(0, hdr),
        Seg(8, Ifd(<< EShort(ImageWidth, 2), EShort(ImageHeight, 2),
                      EShort(Compression, CompressionJpeg),
                      EShort(TileWidth, 2), EShort(TileHeight, 2),
                      ELong(TileOffsets, 140), ELong(TileByteCounts, 5),
                      EPtr(JPEGTables, TypeUndefined, 6, 120) >>, 0)),
        Seg(120, <<255, 216, 1, 2, 255, 217>>),
        Seg(140, <<255, 216, 8, 255, 217>>) })

\* A one-image file with GeoKeys.  The GeoKeyDirectory has the header
\* <<1, 1, 0, 3>> and three keys: GTModelType (1024) with the value 2 in the
\* entry itself, GTCitation (1026) as 4 characters at 0 of GeoAsciiParams
\* "AB |CD|", and `third`: either GeogCitation (2049) as 3 characters at 4 of
\* GeoAsciiParams, or GeogSemiMajorAxis (2057) as 1 double at 0 of
\* GeoDoubleParams.
GeoKeyEntry(key, location, count, valueOrOffset) ==
    Cat(<<LE(key, 2), LE(location, 2), LE(count, 2), LE(valueOrOffset, 2)>>)
GeoFile(hdr, third) ==
    MkFile(136, 0,
      { Seg(0, hdr),
        Seg(8, Ifd(<< EShort(ImageWidth, 2), EShort(ImageHeight, 2),
                      EPtr(GeoKeyDirectory, TypeShort, 16, 80),
                      EPtr(GeoAsciiParams, TypeAscii, 8, 112),
                      EPtr(GeoDoubleParams, TypeDouble, 2, 120) >>, 0)),
        Seg(80, Cat(<< GeoKeyEntry(1, 1, 0, 3),
                       GeoKeyEntry(1024, 0, 1, 2),
                       GeoKeyEntry(1026, GeoAsciiParams, 4, 0),
                       third >>)),
        Seg(112, <<65, 66, 32, 124, 67, 68, 124, 0>>),
        Seg(120, Cat(<<LE(637813700, 8), LE(29825, 8)>>)) })

\* A tiled image of 3x5 pixels in 2x2 tiles, 2 columns and 3 rows of tiles,
\* the last column and the last row cut by the image's edge; no tile arrays.
OddFile(hdr) ==
    MkFile(80, 0,
      { Seg(0, hdr),
        Seg(8, Ifd(<< EShort(ImageWidth, 3), EShort(ImageHeight, 5),
                      EShort(Compression, CompressionDeflate),
                      EShort(TileWidth, 2), EShort(TileHeight, 2) >>, 0)) })

\* A BigTIFF of one image; `ptr` and `zeros` are the header's pointer-size
\* and reserved words.
BigFile(ptr, zeros) ==
    MkFile(72, 0,
      { Seg(0, Cat(<< <<73, 73, 43, 0>>, LE(ptr, 2), LE(zeros, 2), LE(16, 8) >>)),
        Seg(16, IfdBig(<< EBig(ImageWidth, TypeShort, 1, 2),
                          EBig(ImageHeight, TypeShort, 1, 2) >>, 0)) })

Files ==
    [ leader   |-> TiledFile(ClassicHeader(16), 16, 4, <<400, 440, 0, 0>>, <<9, 7, 3, 0>>),
      tiled    |-> TiledFile(ClassicHeader(8), 8, 0, <<400, 440, 0, 0>>, <<6, 7, 3, 0>>),
      strips   |-> StripFile(ClassicHeader(8)),
      jpeg     |-> JpegFile(ClassicHeader(8)),
      odd      |-> OddFile(ClassicHeader(8)),
      padded   |-> [StripFile(ClassicHeader(8)) EXCEPT !.size = 1050],
      geo      |-> GeoFile(ClassicHeader(8), GeoKeyEntry(2049, GeoAsciiParams, 3, 4)),
      geoDbl   |-> GeoFile(ClassicHeader(8), GeoKeyEntry(2057, GeoDoubleParams, 1, 0)),
      big      |-> BigFile(8, 0),
      bigEnd   |-> StripFile(<<77, 77, 0, 42, 0, 0, 0, 8>>),
      badVer   |-> StripFile(<<73, 73, 44, 0>> \o LE(8, 4)),
      badPtr   |-> BigFile(4, 0),
      badZero  |-> BigFile(8, 1) ]
FileNames == DOMAIN Files

\* How the reader was constructed: new CogTiff(source) as create() does, on a
\* Source that knows its size (source.metadata.size) or does not, or
\* new CogTiff(source, headerSize, tileSize) as createEx() does.
\* fixedHeaderSize = -1 stands for undefined.
CreateConfig(sizeKnown) ==
    [fixedHeaderSize |-> -1, defaultReadSize |-> DefaultReadSize, sizeKnown |-> sizeKnown]
CreateExConfig(headerSize, tileSize) ==
    [fixedHeaderSize |-> headerSize, defaultReadSize |-> tileSize, sizeKnown |-> TRUE]
\* header sizes that end inside the first IFD of the strip file, which has
\* its tag count at [8, 10), 5 entries at [10, 70) and the pointer at [70, 74)
ShortHeaderSizes == {9, 64, 68, 70, 74}
\* the readers examined: every file with create(), some of them also otherwise
Setups ==
    {[file |-> n, cfg |-> CreateConfig(TRUE)] : n \in FileNames}
    \cup {[file |-> "tiled", cfg |-> CreateConfig(FALSE)],
          [file |-> "leader", cfg |-> CreateExConfig(512, 512)]}
    \cup {[file |-> "strips", cfg |-> CreateExConfig(h, 512)] : h \in ShortHeaderSizes}

(***************************************************************************)
(* State.                                                                  *)
(***************************************************************************)
VARIABLES
    file,       \* name of the file behind the Source
    source,     \* the Source: the file's size and bytes
    cfg,        \* constructor arguments
    tiff,       \* the CogTiff object's fields
    hdrs,       \* the readHeader() invocations, one per promise made by init()
    initCalls,  \* per caller of init(): the promise it was handed (0: not called)
    initLog,    \* the Source fetches readHeader issued, in order
    inflight,   \* Source fetches issued and not yet completed
    tasks,      \* image operations in progress
    done,       \* the image operation that completed last
    returned    \* history: the fetch(tag) calls that have returned, for the tag fetched
                \* last, until a call of another kind

vars == <<file, source, cfg, tiff, hdrs, initCalls, initLog, inflight, tasks, done, returned>>

(***************************************************************************)
(* ByteView: DataView reads and residency.                                 *)
(***************************************************************************)
\* Source.fetch(offset, length): the window of the file, cut at its end
SourceFetch(f, offset, length) ==
    [off |-> offset, len |-> Max(0, Min(length, f.size - offset))]

\* whether a DataView read of w bytes at view index i stays in the buffer
InView(view, i, w) == i >= 0 /\ i + w <= view.len

ViewByte(f, view, i) == SegByte(f.segs, view.off + i)

RECURSIVE UintLE(_, _, _, _)
UintLE(f, view, i, w) ==
    IF w = 0 THEN 0 ELSE ViewByte(f, view, i) + 256 * UintLE(f, view, i + 1, w - 1)
RECURSIVE UintBE(_, _, _, _, _)
UintBE(f, view, i, w, acc) ==
    IF w = 0 THEN acc ELSE UintBE(f, view, i + 1, w - 1, acc * 256 + ViewByte(f, view, i))

\* getUint(view, offset, width, isLittleEndian); the caller checks InView
getUint(f, view, i, w, le) ==
    IF le THEN UintLE(f, view, i, w) ELSE UintBE(f, view, i, w, 0)

\* hasBytes(view, targetOffset, count): [abs, abs+len) lies inside the buffer
hasBytes(view, abs, len) == abs >= view.off /\ abs + len <= view.off + view.len

\* decode `count` values of `dataType` at view index i
readValue(f, view, i, dataType, count) ==
    LET size == getTiffTagSize(dataType)
        at(k) == getUint(f, view, i + (k - 1) * size, size, TRUE)
    IN  IF size = 0 THEN Null
        ELSE IF dataType = TypeAscii
        THEN LET raw == [k \in 1..count |-> at(k)]
             IN  Str(IF count > 0 /\ raw[count] = 0 THEN SubSeq(raw, 1, count - 1) ELSE raw)
        ELSE IF count = 1 THEN Num(at(1))
        ELSE Arr([k \in 1..count |-> at(k)])

(***************************************************************************)
(* TagFactory.                                                             *)
(***************************************************************************)
\* createTag(tiff, view, offset): the entry at view index e, which the caller
\* has checked to lie in the view
createTag(f, t, view, e) ==
    LET c == t.ifdConfig
        id == getUint(f, view, e, 2, TRUE)
        dataType == getUint(f, view, e + 2, 2, TRUE)
        count == getUint(f, view, e + 4, c.offset, TRUE)
        slot == e + c.ifd - c.pointer
        payloadBytes == count * getTiffTagSize(dataType)
        base == [id |-> id, dataType |-> dataType, count |-> count, isLoaded |-> FALSE]
    IN  IF payloadBytes <= c.pointer
        THEN base @@ [type |-> "inline", dataOffset |-> 0,
                      value |-> readValue(f, view, slot, dataType, count)]
        ELSE base @@ [type |-> IF id \in OffsetArrayTags THEN "offset" ELSE "lazy",
                      dataOffset |-> getUint(f, view, slot, c.pointer, TRUE),
                      value |-> Null]

\* the payload request of a lazy or offset tag: [offset, length]
TagPayload(tag) == [offset |-> tag.dataOffset, length |-> tag.count * getTiffTagSize(tag.dataType)]

\* the tag once its payload `view` has arrived
TagLoaded(f, tag, view) ==
    [tag EXCEPT !.value = readValue(f, view, 0, tag.dataType, tag.count),
                !.isLoaded = (tag.type = "offset")]

(***************************************************************************)
(* CogTiff: header and IFD chain.                                          *)
(***************************************************************************)
NewTiff ==
    [isInitialized |-> FALSE, initPromise |-> 0, isLittleEndian |-> FALSE,
     version |-> TiffVersionTiff, ifdConfig |-> TagTiffConfig,
     options |-> -1, images |-> <<>>]

\* Source fetch requests
Req(site, by, id, img, tag, offset, length) ==
    [site |-> site, by |-> by, id |-> id, img |-> img, tag |-> tag,
     offset |-> offset, length |-> length]

HeaderFail(t, what) == [ok |-> FALSE, what |-> what, tiff |-> t, next |-> 0, offset |-> 0]
HeaderOk(t, next, offset) == [ok |-> TRUE, what |-> "", tiff |-> t, next |-> next, offset |-> offset]

\* parseVersion reading any other version word as classic TIFF
parseVersionAny(f, t, view) ==
    IF t.version = TiffVersionBigTiff
    THEN HeaderFail(t, "Only 8byte pointers are supported")
    ELSE IF ~InView(view, 4, t.ifdConfig.pointer) THEN HeaderFail(t, "RangeError")
    ELSE HeaderOk(t, getUint(f, view, 4, t.ifdConfig.pointer, t.isLittleEndian),
                  4 + t.ifdConfig.pointer)

\* readHeader, from the version word to the first-IFD pointer
parseVersion(f, t, view) ==
    LET le == t.isLittleEndian
    IN  IF t.version = TiffVersionBigTiff
        THEN LET tb == [t EXCEPT !.ifdConfig = TagTiffBigConfig]
             IN  IF ~InView(view, 4, 2) THEN HeaderFail(tb, "RangeError")
                 ELSE IF getUint(f, view, 4, 2, le) # BigTiffPointerSize
                 THEN HeaderFail(tb, "Only 8byte pointers are supported")
                 ELSE IF ~InView(view, 6, 2) THEN HeaderFail(tb, "RangeError")
                 ELSE IF getUint(f, view, 6, 2, le) # 0
                 THEN HeaderFail(tb, "Invalid big tiff header")
                 ELSE IF ~InView(view, 8, tb.ifdConfig.pointer) THEN HeaderFail(tb, "RangeError")
                 ELSE HeaderOk(tb, getUint(f, view, 8, tb.ifdConfig.pointer, le),
                               8 + tb.ifdConfig.pointer)
        ELSE IF t.version = TiffVersionTiff
        THEN IF ~InView(view, 4, t.ifdConfig.pointer) THEN HeaderFail(t, "RangeError")
             ELSE HeaderOk(t, getUint(f, view, 4, t.ifdConfig.pointer, le),
                           4 + t.ifdConfig.pointer)
        ELSE HeaderFail(t, "Only tiff supported version")

parseHeader(f, t, view) ==
    IF ~InView(view, 0, 2) THEN HeaderFail(t, "RangeError")
    ELSE LET endian == getUint(f, view, 0, 2, t.isLittleEndian)
             t1 == [t EXCEPT !.isLittleEndian = (endian = TiffEndianLittle)]
         IN  IF ~t1.isLittleEndian THEN HeaderFail(t1, "Only little endian is supported")
             ELSE IF ~InView(view, 2, 2) THEN HeaderFail(t1, "RangeError")
             ELSE parseVersion(f, [t1 EXCEPT !.version = getUint(f, view, 2, 2, TRUE)], view)

\* the ghost area between the header and the first IFD: this.options.
\* CogTifGhostOptions.process is not modelled byte by byte: the leader size
\* its KEY=VALUE lines give is the file's ghostLeader.
ghostOptions(f, t, next, offset) ==
    LET ghostSize == next - offset
    IN  IF ghostSize > 0 /\ ghostSize < GhostMaxSize
        THEN [t EXCEPT !.options = f.ghostLeader]
        ELSE t

\* options?.tileLeaderByteSize, 0 when there is none
tileLeaderByteSize(t) == IF t.options > 0 THEN t.options ELSE 0

\* an image numbered from 1
NewImageFromOne(id, ifd, tags) ==
    [id |-> id + 1, ifd |-> ifd, tags |-> tags, isGeoTagsLoaded |-> FALSE,
     tagsGeo |-> <<>>]

\* new CogTiffImage(tiff, id, tags); `ifd` records the offset of the IFD the
\* image was read from (a history field: the object carries no such field)
NewImage(id, ifd, tags) ==
    [id |-> id, ifd |-> ifd, tags |-> tags, isGeoTagsLoaded |-> FALSE,
     tagsGeo |-> <<>>]

\* the tags Map built from the parsed entries, in file order: a later entry
\* with the same id replaces an earlier one
tagsMap(entries) ==
    [id \in {entries[i].id : i \in DOMAIN entries} |->
        entries[CHOOSE i \in DOMAIN entries :
                    /\ entries[i].id = id
                    /\ \A j \in DOMAIN entries : entries[j].id = id => j <= i]]

ifdTags(f, t, view, startOffset, tagCount) ==
    tagsMap([i \in 1..tagCount |->
                createTag(f, t, view, startOffset + (i - 1) * t.ifdConfig.ifd)])

IfdFail(t, what) == [ok |-> FALSE, what |-> what, tiff |-> t, next |-> 0]

\* readIfd after images.push: the next-IFD pointer behind the entries
readIfdNext(f, t1, view, nextAt) ==
    IF ~InView(view, nextAt, t1.ifdConfig.pointer) THEN IfdFail(t1, "RangeError")
    ELSE [ok |-> TRUE, what |-> "", tiff |-> t1,
          next |-> getUint(f, view, nextAt, t1.ifdConfig.pointer, t1.isLittleEndian)]

\* readIfd once the tag count is read
readIfdEntries(f, t, offset, view, tagCount) ==
    LET c == t.ifdConfig
        startOffset == offset - view.off + c.offset
    IN  IF ~hasBytes(view, offset, tagCount * c.ifd) THEN IfdFail(t, "IFD out of range")
        ELSE IF ~InView(view, startOffset, tagCount * c.ifd) THEN IfdFail(t, "RangeError")
        ELSE readIfdNext(f,
               [t EXCEPT !.images = Append(@, NewImage(Len(@), offset,
                                     ifdTags(f, t, view, startOffset, tagCount)))],
               view, startOffset + tagCount * c.ifd)

\* readIfd(offset, view): [ok, what, tiff, next]
readIfd(f, t, offset, view) ==
    IF ~InView(view, offset - view.off, t.ifdConfig.offset) THEN IfdFail(t, "RangeError")
    ELSE readIfdEntries(f, t, offset, view,
           getUint(f, view, offset - view.off, t.ifdConfig.offset, t.isLittleEndian))

\* getMaxLength(source, offset, length)
getMaxLength(f, c, offset, length) ==
    IF ~c.sizeKnown THEN length
    ELSE IF offset + length > f.size THEN f.size - offset
    ELSE length

(***************************************************************************)
(* CogTiffImage: tags and GeoKeys.                                         *)
(***************************************************************************)
HasTag(img, id) == id \in DOMAIN img.tags

\* value(tag): the loaded value or null, never any I/O
value(img, id) ==
    IF ~HasTag(img, id) THEN Null
    ELSE IF img.tags[id].type = "offset" /\ ~img.tags[id].isLoaded THEN Null
    ELSE img.tags[id].value

\* the tags init() fetches (loadGeoTags = true)
RequiredTags ==
    {SamplesPerPixel, SampleFormat, BitsPerSample, Compression, ImageHeight,
     ImageWidth, ModelPixelScale, ModelTiePoint, ModelTransformation,
     TileHeight, TileWidth, GeoKeyDirectory, GeoAsciiParams, GeoDoubleParams}

\* fetchLazy(tag, tiff) goes to the Source only while the value is not cached
fetchLazyCached(tag) == ~IsNull(tag.value)

\* fetch(tag): whether the call goes to the Source, and through which function
fetchSite(img, id) ==
    IF ~HasTag(img, id) THEN "none"
    ELSE LET tag == img.tags[id]
         IN  IF tag.type = "inline" THEN "none"
             ELSE IF tag.type = "lazy"
             THEN (IF fetchLazyCached(tag) THEN "none" ELSE "fetchLazy")
             ELSE IF tag.isLoaded THEN "none"
             ELSE "fetchAllOffsets"

\* fetch(tag) when it needs no I/O: null for a missing tag, else the value
fetchNow(img, id) == IF ~HasTag(img, id) THEN Null ELSE img.tags[id].value

\* String.prototype.slice and trim on byte strings
jsSlice(s, a, b) ==
    LET n == Len(s)
        st == IF a < 0 THEN Max(n + a, 0) ELSE Min(a, n)
        en == IF b < 0 THEN Max(n + b, 0) ELSE Min(b, n)
    IN  IF st >= en THEN <<>> ELSE SubSeq(s, st + 1, en)
IsSpace(b) == b \in {9, 10, 11, 12, 13, 32}
RECURSIVE jsTrim(_)
jsTrim(s) ==
    IF s = <<>> THEN s
    ELSE IF IsSpace(Head(s)) THEN jsTrim(Tail(s))
    ELSE IF IsSpace(s[Len(s)]) THEN jsTrim(SubSeq(s, 1, Len(s) - 1))
    ELSE s

\* the loop of loadGeoTiffTags over the key entries, from array index i;
\* an index past the array reads undefined, here -1
RECURSIVE geoKeyLoop(_, _, _)
geoKeyLoop(img, geoTags, i) ==
    LET at(k) == IF k + 1 <= Len(geoTags) THEN geoTags[k + 1] ELSE -1
        key == at(i)
        locationTagId == at(i + 1)
        count == at(i + 2)
        offset == at(i + 3)
        set(v) == [img EXCEPT !.tagsGeo = (key :> v) @@ img.tagsGeo]
    IN  IF at(3) < 0 \/ i > at(3) * 4 THEN [ok |-> TRUE, img |-> img]
        ELSE IF locationTagId = 0 THEN geoKeyLoop(set(Num(offset)), geoTags, i + 4)
        ELSE IF ~HasTag(img, locationTagId) \/ IsNull(img.tags[locationTagId].value)
        THEN geoKeyLoop(img, geoTags, i + 4)
        ELSE IF img.tags[locationTagId].value.k = "str"
        THEN geoKeyLoop(set(Str(jsTrim(jsSlice(img.tags[locationTagId].value.v,
                                               offset, offset + count - 1)))),
                        geoTags, i + 4)
        ELSE [ok |-> FALSE, img |-> img]

\* loadGeoTiffTags() from `this.isGeoTagsLoaded = true` on: [ok, img]
geoUnpack(img) ==
    LET img1 == [img EXCEPT !.isGeoTagsLoaded = TRUE]
        v == img.tags[GeoKeyDirectory].value
    IN  IF IsNull(v) THEN [ok |-> TRUE, img |-> img1]
        ELSE IF IsNum(v) THEN [ok |-> FALSE, img |-> img1]
        ELSE geoKeyLoop(img1, v.v, 4)

\* loadGeoTiffTags() without `if (this.isGeoTagsLoaded) return`
loadGeoTiffTagsAlways(img) ==
    IF ~HasTag(img, GeoKeyDirectory)
    THEN [ok |-> TRUE, img |-> [img EXCEPT !.isGeoTagsLoaded = TRUE]]
    ELSE geoUnpack(img)

\* loadGeoTiffTags() when the GeoKeyDirectory needs no fetch: [ok, img]
loadGeoTiffTagsNow(img) ==
    IF img.isGeoTagsLoaded THEN [ok |-> TRUE, img |-> img]
    ELSE IF ~HasTag(img, GeoKeyDirectory)
    THEN [ok |-> TRUE, img |-> [img EXCEPT !.isGeoTagsLoaded = TRUE]]
    ELSE geoUnpack(img)

\* valueGeo(tag): the key's value, null for undefined
valueGeo(img, key) ==
    IF ~img.isGeoTagsLoaded THEN Err("loadGeoTiffTags() has not been called")
    ELSE IF key \in DOMAIN img.tagsGeo THEN img.tagsGeo[key]
    ELSE Null

\* the Source fetches image.init() issues for image number i (1-based)
imageInitReqs(t, pid, i) ==
    { Req(fetchSite(t.images[i], id), "init", pid, i, id,
          TagPayload(t.images[i].tags[id]).offset,
          TagPayload(t.images[i].tags[id]).length)
      : id \in {g \in RequiredTags : fetchSite(t.images[i], g) # "none"} }

(***************************************************************************)
(* CogTiff.init() and readHeader().                                        *)
(***************************************************************************)
\* a readHeader() invocation: where it is suspended, the next IFD offset,
\* the header view, the images whose init() it awaits and has seen finish;
\* lastIfd and lastView are the offset and the view handed to its latest
\* readIfd call, and what is the error it was rejected with
NewHeaderTask(pc) ==
    [pc |-> pc, next |-> 0, view |-> [off |-> 0, len |-> 0],
     lastIfd |-> 0, lastView |-> [off |-> 0, len |-> 0], what |-> "",
     nimg |-> 0, imgDone |-> {}, failed |-> FALSE]

LogEntry(r) == [site |-> r.site, tag |-> r.tag, offset |-> r.offset, length |-> r.length]

\* the end of image.init() for image i: loadGeoTiffTags()
imageInitEnd(t, i) ==
    LET r == loadGeoTiffTagsNow(t.images[i])
    IN  [ok |-> r.ok, tiff |-> [t EXCEPT !.images[i] = r.img]]

\* the images from i on whose init() needs no Source fetch finish at once:
\* [tiff, done, failed]
IdleJoin(e, i, rest) ==
    [tiff |-> rest.tiff,
     done |-> IF e.ok THEN rest.done \cup {i} ELSE rest.done,
     failed |-> rest.failed \/ ~e.ok]
RECURSIVE endIdleImages(_, _, _)
IdleStep(e, pid, i) == IdleJoin(e, i, endIdleImages(e.tiff, pid, i + 1))
endIdleImages(t, pid, i) ==
    IF i > Len(t.images) THEN [tiff |-> t, done |-> {}, failed |-> FALSE]
    ELSE IF imageInitReqs(t, pid, i) # {} THEN endIdleImages(t, pid, i + 1)
    ELSE IdleStep(imageInitEnd(t, i), pid, i)

\* what one pass of readHeader does: [tiff, task, reqs, log]
Pass(t, task, reqs, log) == [tiff |-> t, task |-> task, reqs |-> reqs, log |-> log]

\* `nextOffsetIfd = await this.readIfd(...)`
afterReadIfd(task, r) ==
    Pass(r.tiff, [task EXCEPT !.pc = IF r.ok THEN "loop" ELSE "rejected", !.next = r.next,
                              !.what = r.what],
         {}, <<>>)

\* the fetch of a block for the IFD at task.next
ifdFetch(task, r) == Pass(r.tiff, [task EXCEPT !.pc = "ifd"], {r.req}, <<LogEntry(r.req)>>)

\* `await Promise.all(this.images.map((i) => i.init()))`
awaitImages(t, task, pid, e) ==
    Pass(e.tiff,
         [task EXCEPT !.pc = "images", !.nimg = Len(t.images),
                      !.imgDone = e.done, !.failed = e.failed],
         UNION {imageInitReqs(t, pid, i) : i \in 1..Len(t.images)}, <<>>)

\* readHeader from the top of `while (nextOffsetIfd !== 0)` to its next await:
\* the fetch of an IFD block, the readIfd call, or Promise.all over the images
loopEnter(f, c, t, task, pid) ==
    IF task.next # 0
    THEN IF c.fixedHeaderSize < 0 /\ ~hasBytes(task.view, task.next, IfdProbeSize)
         THEN ifdFetch(task, [tiff |-> t,
                              req |-> Req("readIfd", "init", pid, 0, 0, task.next,
                                          getMaxLength(f, c, task.next, c.defaultReadSize))])
         ELSE afterReadIfd([task EXCEPT !.lastIfd = task.next, !.lastView = task.view],
                           readIfd(f, t, task.next, task.view))
    ELSE awaitImages(t, task, pid, endIdleImages(t, pid, 1))

Init ==
    /\ \E s \in Setups : file = s.file /\ cfg = s.cfg
    /\ source = Files[file]
    /\ tiff = NewTiff
    /\ hdrs = <<>>
    /\ initCalls = [c \in 1..MaxInitCallers |-> 0]
    /\ initLog = <<>>
    /\ inflight = {}
    /\ tasks = {}
    /\ done = NoDone
    /\ returned = {}

\* readHeader() up to its first await
readHeaderCall(pid) ==
    IF tiff.isInitialized
    THEN /\ hdrs' = Append(hdrs, NewHeaderTask("resolved"))
         /\ UNCHANGED <<inflight, initLog>>
    ELSE LET readSize == IF cfg.fixedHeaderSize >= 0 THEN cfg.fixedHeaderSize
                         ELSE cfg.defaultReadSize
             r == Req("readHeader", "init", pid, 0, 0, 0, readSize)
         IN  /\ hdrs' = Append(hdrs, NewHeaderTask("header"))
             /\ inflight' = inflight \cup {r}
             /\ initLog' = Append(initLog, LogEntry(r))

\* init() without `if (this._initPromise) return this._initPromise`
CallInitAgain(c) ==
    /\ initCalls[c] = 0
    /\ \A b \in 1..(c - 1) : initCalls[b] # 0
    /\ tiff' = [tiff EXCEPT !.initPromise = Len(hdrs) + 1]
    /\ initCalls' = [initCalls EXCEPT ![c] = Len(hdrs) + 1]
    /\ readHeaderCall(Len(hdrs) + 1)
    /\ UNCHANGED <<file, source, cfg, tasks, done, returned>>

\* caller c calls init(); the callers are numbered in the order of their calls
CallInit(c) ==
    /\ initCalls[c] = 0
    /\ \A b \in 1..(c - 1) : initCalls[b] # 0
    /\ IF tiff.initPromise # 0
       THEN /\ initCalls' = [initCalls EXCEPT ![c] = tiff.initPromise]
            /\ UNCHANGED <<tiff, hdrs, inflight, initLog>>
       ELSE LET pid == Len(hdrs) + 1
            IN  /\ tiff' = [tiff EXCEPT !.initPromise = pid]
                /\ initCalls' = [initCalls EXCEPT ![c] = pid]
                /\ readHeaderCall(pid)
    /\ UNCHANGED <<file, source, cfg, tasks, done, returned>>

\* readHeader goes on with the pass e
Entered(pid, e) ==
    /\ tiff' = e.tiff
    /\ hdrs' = [hdrs EXCEPT ![pid] = e.task]
    /\ initLog' = initLog \o e.log

\* the header is parsed: h
HeaderParsed(r, view, h) ==
    IF ~h.ok
    THEN /\ tiff' = h.tiff
         /\ hdrs' = [hdrs EXCEPT ![r.id].pc = "rejected", ![r.id].what = h.what]
         /\ inflight' = inflight \ {r}
         /\ UNCHANGED initLog
    ELSE \E e \in {loopEnter(source, cfg, ghostOptions(source, h.tiff, h.next, h.offset),
                             [hdrs[r.id] EXCEPT !.next = h.next, !.view = view], r.id)} :
            /\ Entered(r.id, e)
            /\ inflight' = (inflight \ {r}) \cup e.reqs

\* the header bytes arrive: the header is parsed and the IFD loop entered
HeaderArrive(r) ==
    /\ r \in inflight /\ r.site = "readHeader"
    /\ \E view \in {SourceFetch(source, r.offset, r.length)} :
          HeaderParsed(r, view, parseHeader(source, tiff, view))
    /\ UNCHANGED <<file, source, cfg, initCalls, tasks, done, returned>>

\* the block fetched for an IFD arrives: readIfd on it
IfdArrive(r) ==
    /\ r \in inflight /\ r.site = "readIfd"
    /\ Entered(r.id, afterReadIfd(
            [hdrs[r.id] EXCEPT !.lastIfd = hdrs[r.id].next,
                               !.lastView = SourceFetch(source, r.offset, r.length)],
            readIfd(source, tiff, hdrs[r.id].next, SourceFetch(source, r.offset, r.length))))
    /\ inflight' = inflight \ {r}
    /\ UNCHANGED <<file, source, cfg, initCalls, tasks, done, returned>>

\* readHeader resumes after `await this.readIfd(...)`
LoopStep(pid) ==
    /\ pid \in DOMAIN hdrs /\ hdrs[pid].pc = "loop"
    /\ \E e \in {loopEnter(source, cfg, tiff, hdrs[pid], pid)} :
          /\ Entered(pid, e)
          /\ inflight' = inflight \cup e.reqs
    /\ UNCHANGED <<file, source, cfg, initCalls, tasks, done, returned>>

\* image.init() of image r.img ends with e
ImageInitEnded(r, e) ==
    /\ tiff' = e.tiff
    /\ hdrs' = [hdrs EXCEPT ![r.id].imgDone = IF e.ok THEN @ \cup {r.img} ELSE @,
                            ![r.id].failed = @ \/ ~e.ok]

\* the tag is loaded: t
ImageTagLoaded(r, t) ==
    IF \E q \in inflight \ {r} : q.by = "init" /\ q.id = r.id /\ q.img = r.img
    THEN tiff' = t /\ UNCHANGED hdrs
    ELSE ImageInitEnded(r, imageInitEnd(t, r.img))

\* a tag payload fetched by image.init() arrives; with the image's last one,
\* its init() goes on to loadGeoTiffTags()
ImageTagArrive(r) ==
    /\ r \in inflight /\ r.by = "init" /\ r.site \in {"fetchLazy", "fetchAllOffsets"}
    /\ ImageTagLoaded(r, [tiff EXCEPT !.images[r.img].tags[r.tag] =
              TagLoaded(source, @, SourceFetch(source, r.offset, r.length))])
    /\ inflight' = inflight \ {r}
    /\ UNCHANGED <<file, source, cfg, initCalls, initLog, tasks, done, returned>>

\* readHeader setting isInitialized whatever became of the image inits
InitSettleAnyway(pid) ==
    /\ pid \in DOMAIN hdrs /\ hdrs[pid].pc = "images"
    /\ hdrs' = [hdrs EXCEPT ![pid].pc = "resolved"]
    /\ tiff' = [tiff EXCEPT !.isInitialized = TRUE]
    /\ UNCHANGED <<file, source, cfg, initCalls, initLog, inflight, tasks, done, returned>>

\* Promise.all over the image inits settles: readHeader resolves or rejects
InitSettle(pid) ==
    /\ pid \in DOMAIN hdrs /\ hdrs[pid].pc = "images"
    /\ \/ /\ hdrs[pid].failed
          /\ hdrs' = [hdrs EXCEPT ![pid].pc = "rejected", ![pid].what = "image init failed"]
          /\ UNCHANGED tiff
       \/ /\ ~hdrs[pid].failed
          /\ hdrs[pid].imgDone = 1..hdrs[pid].nimg
          /\ hdrs' = [hdrs EXCEPT ![pid].pc = "resolved"]
          /\ tiff' = [tiff EXCEPT !.isInitialized = TRUE]
    /\ UNCHANGED <<file, source, cfg, initCalls, initLog, inflight, tasks, done, returned>>

NextInit ==
    \/ \E c \in 1..MaxInitCallers : CallInit(c)
    \/ \E r \in inflight : HeaderArrive(r)
    \/ \E r \in inflight : IfdArrive(r)
    \/ \E pid \in DOMAIN hdrs : LoopStep(pid)
    \/ \E r \in inflight : ImageTagArrive(r)
    \/ \E pid \in DOMAIN hdrs : InitSettle(pid)

SpecInit == Init /\ [][NextInit]_vars

\* the steps readHeader waits for before Promise.all: the arrival of a fetch
\* and the continuation after `await this.readIfd(...)`
InitAdvance ==
    \/ \E r \in inflight : HeaderArrive(r)
    \/ \E r \in inflight : IfdArrive(r)
    \/ \E pid \in DOMAIN hdrs : LoopStep(pid)
    \/ \E r \in inflight : ImageTagArrive(r)

\* ENABLED <<InitAdvance>>_vars, from the guards of the four actions: a fetch
\* of init is in flight or a readHeader call is at the top of its loop
InitAdvanceReady ==
    \/ \E r \in inflight : r.by = "init"
    \/ \E pid \in DOMAIN hdrs : hdrs[pid].pc = "loop"

\* an InitAdvance step is taken from no other state
InitAdvanceGuarded == [][<<InitAdvance>>_vars => InitAdvanceReady]_vars

\* Every fetch of the Source completes and every continuation of readHeader
\* that is ready runs: weak fairness of InitAdvance, written out with
\* InitAdvanceReady for the ENABLED it contains, and of the settling of
\* Promise.all.
InitFairness ==
    /\ []<>(~InitAdvanceReady) \/ []<><<InitAdvance>>_vars
    /\ WF_vars(\E pid \in DOMAIN hdrs : InitSettle(pid))
SpecInitFair == Init /\ [][NextInit]_vars /\ InitFairness

(***************************************************************************)
(* CogTiffImage: derived values.                                           *)
(***************************************************************************)

\* get compression(): the mime type, named by its compression code, or null
compression(img) ==
    IF IsNum(value(img, Compression)) /\ value(img, Compression).v[1] \in TiffCompression
    THEN value(img, Compression) ELSE Null

\* isTiled()
isTiled(img) == ~IsNull(value(img, TileWidth))

\* one dimension of get size() / get tileSize(): a number, 0 for null
dim(img, id) == IF IsNum(value(img, id)) THEN value(img, id).v[1] ELSE 0

\* get resolution()[0] in hundredths as a fraction: [ok, num, den]
RECURSIVE resolutionX(_, _)
resolutionX(t, i) ==
    LET img == t.images[i]
    IN  IF ~IsNull(value(img, ModelPixelScale))
        THEN [ok |-> TRUE, num |-> value(img, ModelPixelScale).v[1], den |-> 1]
        ELSE IF ~IsNull(value(img, ModelTransformation))
        THEN [ok |-> TRUE, num |-> value(img, ModelTransformation).v[1], den |-> 1]
        ELSE IF value(img, NewSubFileType) = Num(1) /\ img.id # 0
                /\ resolutionX(t, 1).ok
        THEN [ok |-> TRUE,
              num |-> resolutionX(t, 1).num * dim(t.images[1], ImageWidth),
              den |-> resolutionX(t, 1).den * dim(img, ImageWidth)]
        ELSE [ok |-> FALSE, num |-> 0, den |-> 1]

\* the loop of getImageByResolution run upwards, from the first overview
RECURSIVE resolutionScanUp(_, _, _, _)
resolutionScanUp(t, resolutionBaseX, resolution, i) ==
    LET up == Len(t.images) + 2 - i
    IN  IF i <= 1 THEN 1
        ELSE IF dim(t.images[up], ImageWidth) > 0
                /\ resolutionBaseX <= (resolution + 1) * dim(t.images[up], ImageWidth)
        THEN up
        ELSE resolutionScanUp(t, resolutionBaseX, resolution, i - 1)

\* the loop of getImageByResolution from image number i (1-based) down;
\* resolutions in hundredths: imgResolutionX - resolution <= 0.01 is
\* resolutionBaseX / width <= resolution + 1, false for a width of 0 or null
RECURSIVE resolutionScan(_, _, _, _)
resolutionScan(t, resolutionBaseX, resolution, i) ==
    IF i <= 1 THEN 1
    ELSE IF dim(t.images[i], ImageWidth) > 0
            /\ resolutionBaseX <= (resolution + 1) * dim(t.images[i], ImageWidth)
    THEN i
    ELSE resolutionScan(t, resolutionBaseX, resolution, i - 1)

\* getImageByResolution(resolution): the number of the image returned
getImageByResolution(t, resolution) ==
    IF Len(t.images) = 0 THEN Err("TypeError")
    ELSE IF ~resolutionX(t, 1).ok THEN Err("Image does not have a geo transformation.")
    ELSE Num(resolutionScan(t, resolutionX(t, 1).num * dim(t.images[1], ImageWidth),
                            resolution, Len(t.images)))

\* getResolutions(): the x resolutions as fractions, or the error of the
\* first image that has none
getResolutions(t) ==
    IF \E i \in 1..Len(t.images) : ~resolutionX(t, i).ok
    THEN Err("Image does not have a geo transformation.")
    ELSE Arr([i \in 1..Len(t.images) |-> resolutionX(t, i).num \div resolutionX(t, i).den])

(***************************************************************************)
(* CogTiffImage: tiles and strips.                                         *)
(***************************************************************************)
\* An image operation in progress.  idx is the tile or strip index; first and
\* second are the two values getTileSize / getStrip wait for (-1: not yet
\* there); log is the Source fetches the call has issued.
NewTask(tid, op, img, x, y) ==
    [tid |-> tid, op |-> op, img |-> img, x |-> x, y |-> y, idx |-> 0,
     stage |-> "start", first |-> -1, second |-> -1, log |-> {}]

\* what a call does up to its next await: it settles with `res`, or it
\* suspends as `task`; either way it has issued the fetches `reqs`
FinWith(k, res, reqs) ==
    [fin |-> TRUE, res |-> res,
     task |-> [k EXCEPT !.log = @ \cup {LogEntry(r) : r \in reqs}], reqs |-> reqs]
Fin(k, res) == FinWith(k, res, {})
Wait(k, stage, reqs) ==
    [fin |-> FALSE, res |-> Null,
     task |-> [k EXCEPT !.stage = stage, !.log = @ \cup {LogEntry(r) : r \in reqs}],
     reqs |-> reqs]

\* the bytes of a fetched window
bytesOf(f, view) == [i \in 1..view.len |-> ViewByte(f, view, i - 1)]

\* getJpegHeader(bytes)
getJpegHeader(img, bytes) ==
    IF IsNull(value(img, JPEGTables)) THEN Err("Unable to find Jpeg header")
    ELSE Arr(jsSlice(value(img, JPEGTables).v, 0, Len(value(img, JPEGTables).v) - 2)
             \o jsSlice(bytes, 2, Len(bytes)))

\* getBytes(offset, byteCount) up to the fetch
getBytes(t, k, offset, byteCount) ==
    IF IsNull(compression(t.images[k.img])) THEN Fin(k, Err("Unsupported compression"))
    ELSE IF byteCount = 0 THEN Fin(k, Null)
    ELSE Wait(k, "bytes", {Req("getBytes", "task", k.tid, k.img, 0, offset, byteCount)})

\* getBytes from the arrival of the bytes
getBytesArrive(f, t, k, r, view) ==
    IF view.len < r.length THEN Fin(k, Err("Failed to fetch bytes"))
    ELSE IF compression(t.images[k.img]) = Num(CompressionJpeg)
    THEN Fin(k, getJpegHeader(t.images[k.img], bytesOf(f, view)))
    ELSE Fin(k, Arr(bytesOf(f, view)))

\* getValueAt(tiff, tag, index): the element of a loaded array, else the
\* fetch of the whole array
getValueAt(k, tag, index) ==
    IF tag.isLoaded THEN [k |-> "value", v |-> tag.value.v[index + 1], req |-> {}]
    ELSE [k |-> "fetch", v |-> -1,
          req |-> {Req("getValueAt", "task", k.tid, k.img, tag.id,
                       TagPayload(tag).offset, TagPayload(tag).length)}]

\* getOffset(tiff, x, index): it throws, has the value, or fetches it.
\* An index equal to x.count passes the check; no call here is made with one.
getOffset(k, tag, index) ==
    IF index > tag.count \/ index < 0 THEN [k |-> "throw", v |-> -1, req |-> {}]
    ELSE IF tag.type = "inline"
    THEN [k |-> "value", req |-> {},
          v |-> IF tag.count > 1 THEN tag.value.v[index + 1] ELSE tag.value.v[1]]
    ELSE getValueAt(k, tag, index)

\* getStrip handing the byte count to getBytes as the offset
getStripBytesSwapped(t, k) == getBytes(t, k, k.second, k.first)

\* getStrip after Promise.all: `return this.getBytes(byteCount, offset)`, where
\* byteCount names the element of StripOffsets and offset that of StripByteCounts
getStripBytes(t, k) == getBytes(t, k, k.first, k.second)

\* getTileSize has resolved with {offset: k.first, imageSize: k.second}
sizeKnown(t, k) ==
    IF k.op = "getTileSize" THEN Fin(k, Arr(<<k.first, k.second>>))
    ELSE IF k.op = "hasTile" THEN Fin(k, Bool(k.first > 0))
    ELSE getBytes(t, k, k.first, k.second)

\* Promise.all over the two getOffset calls: once both values are there
pairStep(t, k, reqs) ==
    IF k.first < 0 \/ k.second < 0 THEN Wait(k, "values", reqs)
    ELSE IF k.op = "getStrip" THEN getStripBytes(t, k)
    ELSE sizeKnown(t, k)

\* Promise.all([getOffset(..a..), getOffset(..b..)]): the calls are made in
\* order, and a throw of the second leaves the fetch of the first issued
startPair(t, k, a, b) ==
    IF a.k = "throw" THEN Fin(k, Err("TagIndex: out of bounds"))
    ELSE IF b.k = "throw" THEN FinWith(k, Err("TagIndex: out of bounds"), a.req)
    ELSE pairStep(t, [k EXCEPT !.first = a.v, !.second = b.v], a.req \cup b.req)

\* getTileSize with a tile leader, from the tile's offset k.first on
leaderStep(t, k) ==
    IF k.first = 0 THEN sizeKnown(t, [k EXCEPT !.second = 0])
    ELSE Wait(k, "leader",
              {Req("getTileSize", "task", k.tid, k.img, 0,
                   k.first - tileLeaderByteSize(t), tileLeaderByteSize(t))})

\* `const offset = await getOffset(this.tiff, this.tileOffset, index)`
leaderStart(t, k, a) ==
    IF a.k = "throw" THEN Fin(k, Err("TagIndex: out of bounds"))
    ELSE IF a.k = "fetch" THEN Wait(k, "offset", a.req)
    ELSE leaderStep(t, [k EXCEPT !.first = a.v])

\* the leader bytes arrive
leaderArrive(f, t, k, view) ==
    IF ~InView(view, 0, tileLeaderByteSize(t)) THEN Fin(k, Err("RangeError"))
    ELSE sizeKnown(t, [k EXCEPT !.second =
                         getUint(f, view, 0, tileLeaderByteSize(t), t.isLittleEndian)])

\* getTileSize without the tile leader branch
getTileSizeByCounts(t, k) ==
    IF ~HasTag(t.images[k.img], TileByteCounts)
    THEN Fin(k, Err("No tile byte counts found"))
    ELSE IF ~HasTag(t.images[k.img], TileOffsets) THEN Fin(k, Err("No tile offsets found"))
    ELSE startPair(t, k, getOffset(k, t.images[k.img].tags[TileOffsets], k.idx),
                   getOffset(k, t.images[k.img].tags[TileByteCounts], k.idx))

\* getTileSize(index), index = k.idx
getTileSize(t, k) ==
    IF tileLeaderByteSize(t) > 0
    THEN IF ~HasTag(t.images[k.img], TileOffsets) THEN Fin(k, Err("No tile offsets found"))
         ELSE leaderStart(t, k, getOffset(k, t.images[k.img].tags[TileOffsets], k.idx))
    ELSE IF ~HasTag(t.images[k.img], TileByteCounts)
    THEN Fin(k, Err("No tile byte counts found"))
    ELSE IF ~HasTag(t.images[k.img], TileOffsets) THEN Fin(k, Err("No tile offsets found"))
    ELSE startPair(t, k, getOffset(k, t.images[k.img].tags[TileOffsets], k.idx),
                   getOffset(k, t.images[k.img].tags[TileByteCounts], k.idx))

\* tileCount: Math.ceil(size / tileSize)
nxTiles(img) == CeilDiv(dim(img, ImageWidth), dim(img, TileWidth))
nyTiles(img) == CeilDiv(dim(img, ImageHeight), dim(img, TileHeight))

\* getTileBounds(x, y) with the clamp dropped
getTileBoundsUnclamped(img, x, y) ==
    Arr(<<x * dim(img, TileWidth), y * dim(img, TileHeight),
          dim(img, TileWidth), dim(img, TileHeight)>>)

\* getTileBounds(x, y): <<x, y, width, height>>
getTileBounds(img, x, y) ==
    LET top == y * dim(img, TileHeight)
        left == x * dim(img, TileWidth)
        width == IF left + dim(img, TileWidth) >= dim(img, ImageWidth)
                 THEN dim(img, ImageWidth) - left ELSE dim(img, TileWidth)
        height == IF top + dim(img, TileHeight) >= dim(img, ImageHeight)
                  THEN dim(img, ImageHeight) - top ELSE dim(img, TileHeight)
    IN  Arr(<<left, top, width, height>>)

\* getTile(x, y) up to its first await.  On an untiled image the tile counts
\* are Infinity: the index is then Infinity, NaN or -Infinity, and the call
\* fails in the range check or in getTileSize, which finds no tile arrays.
getTile(t, k) ==
    LET img == t.images[k.img]
    IN  IF IsNull(compression(img)) THEN Fin(k, Err("Unsupported compression"))
        ELSE IF ~isTiled(img)
        THEN Fin(k, IF k.y > 0 THEN Err("Tile index is outside of tile range")
                    ELSE Err("No tile arrays found"))
        ELSE IF k.x >= nxTiles(img) \/ k.y >= nyTiles(img)
        THEN Fin(k, Err("Tile index is outside of range"))
        ELSE IF k.y * nxTiles(img) + k.x >= nxTiles(img) * nyTiles(img)
        THEN Fin(k, Err("Tile index is outside of tile range"))
        ELSE getTileSize(t, [k EXCEPT !.idx = k.y * nxTiles(img) + k.x])

\* hasTile(x, y) up to its first await
hasTile(t, k) ==
    LET img == t.images[k.img]
    IN  IF ~isTiled(img) THEN Fin(k, Err("No tile arrays found"))
        ELSE IF k.x >= nxTiles(img) \/ k.y >= nyTiles(img) THEN Fin(k, Bool(FALSE))
        ELSE getTileSize(t, [k EXCEPT !.idx = k.y * nxTiles(img) + k.x])

\* getStrip(index) up to its first await, index = k.idx
getStrip(t, k) ==
    LET img == t.images[k.img]
    IN  IF isTiled(img) THEN Fin(k, Err("Cannot read stripes, tiff is tiled"))
        ELSE IF ~HasTag(img, StripByteCounts) THEN Fin(k, Err("TypeError"))
        ELSE IF k.idx >= img.tags[StripByteCounts].count
        THEN Fin(k, Err("Cannot read strip, index out of bounds"))
        ELSE IF ~HasTag(img, StripOffsets) THEN Fin(k, Err("TypeError"))
        ELSE startPair(t, k, getOffset(k, img.tags[StripOffsets], k.idx),
                       getOffset(k, img.tags[StripByteCounts], k.idx))

(***************************************************************************)
(* Calls on an initialized reader.                                         *)
(***************************************************************************)
\* arguments of the calls
TileCoords == -1..2
StripIndexes == -1..3
TileIndexes == -1..5
FetchTags == {ImageWidth, TileOffsets, TileByteCounts, StripOffsets, ModelPixelScale,
              JPEGTables}
\* resolutions asked for, in hundredths; the pyramid's are 100, 200 and 400.
\* Doubles are not modelled: no input lies exactly 0.01 under a resolution.
Resolutions == {50, 198, 200, 398, 400, 1000}

\* GTModelType, GTCitation, GeogSemiMajorAxis, and a key no file has
GeoKeys == {1024, 1026, 2057, 3072}

TileOps == {"getTile", "hasTile", "getTileSize", "getStrip"}

\* the smallest task number in use by no task and no fetch
FreeTid ==
    CHOOSE n \in 1..(Cardinality(tasks) + Cardinality(inflight) + 1) :
        /\ \A k \in tasks : k.tid # n
        /\ \A r \in inflight : r.by = "task" => r.id # n
        /\ \A m \in 1..(n - 1) :
              (\E k \in tasks : k.tid = m) \/ (\E r \in inflight : r.by = "task" /\ r.id = m)

\* a call, or the resumption of the tasks `old`, goes as far as o.  `done`
\* holds the call that settled last, until the next call is made; the fetch
\* calls are recorded in `returned` instead.
Settle(old, gone, o, idle) ==
    /\ tasks' = IF o.fin THEN tasks \ old ELSE (tasks \ old) \cup {o.task}
    /\ done' = IF o.task.op = "fetch" THEN NoDone
               ELSE IF o.fin
               THEN Done(o.task.op, o.task.img, o.task.x, o.task.y, o.res, o.task.log)
               ELSE idle
    /\ returned' = IF o.task.op # "fetch" THEN {}
                   ELSE {e \in returned : e.img = o.task.img /\ e.x = o.task.x}
                        \cup (IF o.fin
                              THEN {Done("fetch", o.task.img, o.task.x, o.task.y,
                                         o.res, o.task.log)}
                              ELSE {})
    /\ inflight' = (inflight \ gone) \cup o.reqs

CanCallTile(i) ==
    /\ tiff.isInitialized
    /\ i \in 1..Len(tiff.images)
    /\ \A k \in tasks : k.op \in TileOps
    /\ Cardinality(tasks) < MaxTasks

CallGetTile(i, x, y) ==
    /\ CanCallTile(i)
    /\ Settle({}, {}, getTile(tiff, NewTask(FreeTid, "getTile", i, x, y)), NoDone)
    /\ UNCHANGED <<file, source, cfg, tiff, hdrs, initCalls, initLog>>

CallHasTile(i, x, y) ==
    /\ CanCallTile(i)
    /\ Settle({}, {}, hasTile(tiff, NewTask(FreeTid, "hasTile", i, x, y)), NoDone)
    /\ UNCHANGED <<file, source, cfg, tiff, hdrs, initCalls, initLog>>

CallGetTileSize(i, index) ==
    /\ CanCallTile(i)
    /\ HasTag(tiff.images[i], TileOffsets) =>
          index # tiff.images[i].tags[TileOffsets].count
    /\ Settle({}, {}, getTileSize(tiff, [NewTask(FreeTid, "getTileSize", i, index, 0)
                                       EXCEPT !.idx = index]), NoDone)
    /\ UNCHANGED <<file, source, cfg, tiff, hdrs, initCalls, initLog>>

CallGetStrip(i, index) ==
    /\ CanCallTile(i)
    /\ Settle({}, {}, getStrip(tiff, [NewTask(FreeTid, "getStrip", i, index, 0)
                                    EXCEPT !.idx = index]), NoDone)
    /\ UNCHANGED <<file, source, cfg, tiff, hdrs, initCalls, initLog>>

\* fetch(tag) without `if (sourceTag.isLoaded) return sourceTag.value`
fetchUncached(t, k) ==
    IF ~HasTag(t.images[k.img], k.x) \/ t.images[k.img].tags[k.x].type # "offset"
    THEN IF fetchSite(t.images[k.img], k.x) = "none"
         THEN Fin(k, fetchNow(t.images[k.img], k.x))
         ELSE Wait(k, "fetch",
                   {Req("fetchLazy", "task", k.tid, k.img, k.x,
                        TagPayload(t.images[k.img].tags[k.x]).offset,
                        TagPayload(t.images[k.img].tags[k.x]).length)})
    ELSE Wait(k, "fetch",
              {Req("fetchAllOffsets", "task", k.tid, k.img, k.x,
                   TagPayload(t.images[k.img].tags[k.x]).offset,
                   TagPayload(t.images[k.img].tags[k.x]).length)})

\* fetch(tag) up to its await; tag = k.x
fetch(t, k) ==
    IF fetchSite(t.images[k.img], k.x) = "none" THEN Fin(k, fetchNow(t.images[k.img], k.x))
    ELSE Wait(k, "fetch",
              {Req(fetchSite(t.images[k.img], k.x), "task", k.tid, k.img, k.x,
                   TagPayload(t.images[k.img].tags[k.x]).offset,
                   TagPayload(t.images[k.img].tags[k.x]).length)})

\* image.fetch(id); the task's y records (history) whether a fetch of this
\* tag had already returned when the call was made
CallFetch(i, id) ==
    /\ tiff.isInitialized
    /\ i \in 1..Len(tiff.images)
    /\ \A k \in tasks : k.op = "fetch"
    /\ Cardinality(tasks) < MaxFetchTasks
    /\ Settle({}, {}, fetch(tiff, NewTask(FreeTid, "fetch", i, id,
                    IF \E e \in returned : e.img = i /\ e.x = id THEN 1 ELSE 0)), NoDone)
    /\ UNCHANGED <<file, source, cfg, tiff, hdrs, initCalls, initLog>>

\* the value getValueAt fetched goes to the call that waits for it
valueArrive(t, k, r) ==
    LET v == t.images[r.img].tags[r.tag].value.v[k.idx + 1]
    IN  IF k.stage = "offset" THEN leaderStep(t, [k EXCEPT !.first = v])
        ELSE IF r.tag \in {TileOffsets, StripOffsets}
        THEN pairStep(t, [k EXCEPT !.first = v], {})
        ELSE pairStep(t, [k EXCEPT !.second = v], {})

\* task k goes on with the bytes of fetch r
resume(f, t, k, r, view) ==
    IF r.site = "getValueAt" THEN valueArrive(t, k, r)
    ELSE IF r.site = "getTileSize" THEN leaderArrive(f, t, k, view)
    ELSE IF r.site = "getBytes" THEN getBytesArrive(f, t, k, r, view)
    ELSE Fin(k, t.images[r.img].tags[r.tag].value)

\* the fetch r has put the reader in state t
Arrived(r, t, view) ==
    /\ tiff' = t
    /\ IF \E k \in tasks : k.tid = r.id
       THEN \E k \in {j \in tasks : j.tid = r.id} :
               \E o \in {resume(source, t, k, r, view)} :
                  Settle({k}, {r}, o, done)
       ELSE /\ inflight' = inflight \ {r}
            /\ UNCHANGED <<tasks, done, returned>>

\* a Source fetch issued by a call arrives: a fetched tag payload is stored
\* in the tag, and the call goes on to its next await
TaskArrive(r) ==
    /\ r \in inflight /\ r.by = "task"
    /\ \E view \in {SourceFetch(source, r.offset, r.length)} :
          Arrived(r, IF r.tag = 0 THEN tiff
                     ELSE [tiff EXCEPT !.images[r.img].tags[r.tag] =
                                          TagLoaded(source, @, view)], view)
    /\ UNCHANGED <<file, source, cfg, hdrs, initCalls, initLog>>

\* The calls that return without awaiting a fetch are made while no task is
\* waiting for one: they read and write nothing a task holds, so their order
\* with the steps of a task does not matter.
\* loadGeoTiffTags() on an image of the reader, as soon as readIfd has made
\* it, when the GeoKeyDirectory needs no fetch
CallLoadGeoTiffTags(i) ==
    /\ i \in 1..Len(tiff.images)
    /\ tasks = {}
    /\ fetchSite(tiff.images[i], GeoKeyDirectory) = "none"
    /\ \E g \in {loadGeoTiffTagsNow(tiff.images[i])} :
          /\ tiff' = [tiff EXCEPT !.images[i] = g.img]
          /\ done' = Done("loadGeoTiffTags", i, 0, 0,
                          IF g.ok THEN Null ELSE Err("Failed to extract GeoTiffTags"), {})
    /\ returned' = {}
    /\ UNCHANGED <<file, source, cfg, hdrs, initCalls, initLog, inflight, tasks>>

\* valueGeo(key) on an image of the reader, as soon as readIfd has made it
CallValueGeo(i, key) ==
    /\ i \in 1..Len(tiff.images)
    /\ tasks = {}
    /\ done' = Done("valueGeo", i, key, 0, valueGeo(tiff.images[i], key), {})
    /\ returned' = {}
    /\ UNCHANGED <<file, source, cfg, tiff, hdrs, initCalls, initLog, inflight, tasks>>

CallGetTileBounds(i, x, y) ==
    /\ tiff.isInitialized
    /\ i \in 1..Len(tiff.images)
    /\ tasks = {}
    /\ done' = Done("getTileBounds", i, x, y, getTileBounds(tiff.images[i], x, y), {})
    /\ returned' = {}
    /\ UNCHANGED <<file, source, cfg, tiff, hdrs, initCalls, initLog, inflight, tasks>>

CallGetImageByResolution(resolution) ==
    /\ tiff.isInitialized
    /\ tasks = {}
    /\ done' = Done("getImageByResolution", 0, resolution, 0,
                    getImageByResolution(tiff, resolution), {})
    /\ returned' = {}
    /\ UNCHANGED <<file, source, cfg, tiff, hdrs, initCalls, initLog, inflight, tasks>>

CallGetResolutions ==
    /\ tiff.isInitialized
    /\ tasks = {}
    /\ done' = Done("getResolutions", 0, 0, 0, getResolutions(tiff), {})
    /\ returned' = {}
    /\ UNCHANGED <<file, source, cfg, tiff, hdrs, initCalls, initLog, inflight, tasks>>

NextTiles ==
    \/ \E i \in 1..Len(tiff.images), x, y \in TileCoords : CallGetTile(i, x, y)
    \/ \E i \in 1..Len(tiff.images), x, y \in TileCoords : CallHasTile(i, x, y)
    \/ \E i \in 1..Len(tiff.images), index \in TileIndexes : CallGetTileSize(i, index)
    \/ \E i \in 1..Len(tiff.images), index \in StripIndexes : CallGetStrip(i, index)

NextFetch == \E i \in 1..Len(tiff.images), id \in FetchTags : CallFetch(i, id)

NextBounds ==
    \E i \in 1..Len(tiff.images), x, y \in TileCoords : CallGetTileBounds(i, x, y)

NextGeo ==
    \/ \E i \in 1..Len(tiff.images) : CallLoadGeoTiffTags(i)
    \/ \E i \in 1..Len(tiff.images), key \in GeoKeys : CallValueGeo(i, key)

NextArrive == \E r \in inflight : TaskArrive(r)

NextResolution ==
    \/ \E resolution \in Resolutions : CallGetImageByResolution(resolution)
    \/ CallGetResolutions

\* tiles and strips of an initialized reader
SpecTiles == Init /\ [][NextInit \/ NextTiles \/ NextArrive]_vars
\* tag fetches
SpecFetch == Init /\ [][NextInit \/ NextFetch \/ NextArrive]_vars
\* resolutions
SpecResolution == Init /\ [][NextInit \/ NextResolution]_vars
\* tile bounds
SpecBounds == Init /\ [][NextInit \/ NextBounds]_vars
\* GeoKeys
SpecGeo == Init /\ [][NextInit \/ NextGeo]_vars

Next ==
    NextInit \/ NextTiles \/ NextFetch \/ NextArrive \/ NextResolution \/ NextGeo
        \/ NextBounds
Spec == Init /\ [][Next]_vars

(***************************************************************************)
(* Properties.                                                             *)
(***************************************************************************)
\* the unsigned little-endian integer in the w file bytes from o
RECURSIVE FileUint(_, _, _)
FileUint(f, o, w) ==
    IF w = 0 THEN 0 ELSE SegByte(f.segs, o) + 256 * FileUint(f, o + 1, w - 1)

\* the file bytes [o, o + n)
FileBytes(f, o, n) == [i \in 1..n |-> SegByte(f.segs, o + i - 1)]

Callers == 1..MaxInitCallers
HeaderFetches == {i \in DOMAIN initLog : initLog[i].site = "readHeader"}
HeaderSize == IF cfg.fixedHeaderSize >= 0 THEN cfg.fixedHeaderSize ELSE cfg.defaultReadSize

\* C1: however the calls to init() interleave, before or after the first one
\* has completed, every call is handed the same promise, the promise resolves
\* to the initialized reader, and the Source receives exactly one header
\* fetch fetch(0, headerSize) in total.
C1_InitOnce ==
    /\ \A a, b \in Callers :
          initCalls[a] # 0 /\ initCalls[b] # 0 => initCalls[a] = initCalls[b]
    /\ \A a \in Callers : initCalls[a] # 0 => initCalls[a] = tiff.initPromise
    /\ Cardinality(HeaderFetches) = (IF \E a \in Callers : initCalls[a] # 0 THEN 1 ELSE 0)
    /\ \A i \in HeaderFetches : initLog[i].offset = 0 /\ initLog[i].length = HeaderSize
    /\ \A pid \in DOMAIN hdrs : hdrs[pid].pc = "resolved" => tiff.isInitialized

\* every caller has called init() while the header fetch of the first call
\* is still in flight
C1_Witness ==
    /\ \A a \in Callers : initCalls[a] = 1
    /\ Len(hdrs) = 1 /\ hdrs[1].pc = "header"
    /\ \E r \in inflight : r.site = "readHeader"

\* the header as the file has it: byte-order mark, version word, and for
\* BigTIFF the pointer size and the reserved word
HeaderInvalid(f) ==
    \/ FileUint(f, 0, 2) # TiffEndianLittle
    \/ FileUint(f, 2, 2) \notin {TiffVersionTiff, TiffVersionBigTiff}
    \/ /\ FileUint(f, 2, 2) = TiffVersionBigTiff
       /\ FileUint(f, 4, 2) # BigTiffPointerSize \/ FileUint(f, 6, 2) # 0

\* C7: with an invalid header init() fails: once the header bytes are in, the
\* promise is rejected; no image is ever appended, isInitialized stays false,
\* and every later init() is handed the same rejected promise.
C7_InvalidHeaderFatal ==
    HeaderInvalid(source) =>
        /\ tiff.images = <<>>
        /\ ~tiff.isInitialized
        /\ Len(hdrs) <= 1
        /\ \A a \in Callers : initCalls[a] \in {0, 1}
        /\ \A pid \in DOMAIN hdrs :
              \/ hdrs[pid].pc = "rejected"
              \/ /\ hdrs[pid].pc = "header"
                 /\ \E r \in inflight : r.site = "readHeader" /\ r.id = pid

\* init() was rejected for a bad version word, and a later caller has called
C7_Witness ==
    /\ HeaderInvalid(source)
    /\ FileUint(source, 0, 2) = TiffEndianLittle
    /\ Len(hdrs) = 1 /\ hdrs[1].pc = "rejected"
    /\ \A a \in Callers : initCalls[a] = 1

\* element i of an offset array as the file has it
FileElem(f, tag, i) ==
    IF tag.type = "inline"
    THEN (IF tag.count > 1 THEN tag.value.v[i + 1] ELSE tag.value.v[1])
    ELSE FileUint(f, tag.dataOffset + i * getTiffTagSize(tag.dataType),
                  getTiffTagSize(tag.dataType))

\* the call c (a task, or `done`) is on a tiled image / inside its tile grid
OnTiled(c) == c.img \in 1..Len(tiff.images) /\ isTiled(tiff.images[c.img])
InGrid(c) ==
    /\ 0 <= c.x /\ c.x < nxTiles(tiff.images[c.img])
    /\ 0 <= c.y /\ c.y < nyTiles(tiff.images[c.img])
\* the call's tile is sparse: TileOffsets[y * nxTiles + x] = 0
SparseTile(c) ==
    /\ TileOffsets \in DOMAIN tiff.images[c.img].tags
    /\ FileElem(source, tiff.images[c.img].tags[TileOffsets],
                c.y * nxTiles(tiff.images[c.img]) + c.x) = 0
BodyFetches(log) == {e \in log : e.site = "getBytes"}

\* C2: on an initialized tiled image, getTile(x, y) of a sparse tile in the
\* grid returns null and issues no Source fetch for a tile body, whatever
\* TileByteCounts holds at the index, with and without a tile leader size.
C2_SparseTileNull ==
    /\ \A k \in tasks :
          k.op = "getTile" /\ OnTiled(k) /\ InGrid(k) /\ SparseTile(k)
              => BodyFetches(k.log) = {}
    /\ done.op = "getTile" /\ OnTiled(done) /\ InGrid(done) /\ SparseTile(done)
          => done.res = Null /\ BodyFetches(done.log) = {}

\* C3: on an initialized tiled image, getTile(x, y) outside the grid (too
\* large or negative) fails with an error and issues no Source fetch.
C3_OutOfGridFails ==
    /\ \A k \in tasks : k.op = "getTile" /\ OnTiled(k) => InGrid(k)
    /\ done.op = "getTile" /\ OnTiled(done) /\ ~InGrid(done)
          => IsErr(done.res) /\ done.log = {}

\* C4: on an initialized tiled image, hasTile(x, y) outside the grid (too
\* large or negative) does not fail: it resolves to false.
C4_HasTileOutOfGridFalse ==
    done.op = "hasTile" /\ OnTiled(done) /\ ~InGrid(done) => done.res = Bool(FALSE)

\* a fetch of the TileByteCounts array or of a part of it
IsByteCountsFetch(e) == e.tag = TileByteCounts
\* the call c is getTileSize(i) for an i of the array with TileOffsets[i] # 0
SizeOfTile(c) ==
    /\ c.op = "getTileSize" /\ OnTiled(c)
    /\ 0 <= c.x /\ c.x < tiff.images[c.img].tags[TileOffsets].count
    /\ FileElem(source, tiff.images[c.img].tags[TileOffsets], c.x) # 0

\* C5: with a tile leader size L > 0, getTileSize(i) with TileOffsets[i] = o # 0
\* returns {offset: o, imageSize: the unsigned integer in the L bytes before
\* o}, and no getTileSize / getTile / hasTile call ever fetches TileByteCounts.
C5_LeaderSize ==
    tileLeaderByteSize(tiff) > 0 =>
        /\ SizeOfTile(done) =>
              done.res = Arr(<< FileElem(source, tiff.images[done.img].tags[TileOffsets], done.x),
                                FileUint(source,
                                         FileElem(source, tiff.images[done.img].tags[TileOffsets],
                                                  done.x) - tileLeaderByteSize(tiff),
                                         tileLeaderByteSize(tiff)) >>)
        /\ \A r \in inflight : r.by = "task" => ~IsByteCountsFetch(r)
        /\ \A k \in tasks : \A e \in k.log : ~IsByteCountsFetch(e)
        /\ \A e \in done.log : ~IsByteCountsFetch(e)
        /\ \A i \in 1..Len(tiff.images) :
              HasTag(tiff.images[i], TileByteCounts)
                  => ~tiff.images[i].tags[TileByteCounts].isLoaded

\* with TileOffsets fetched, getTileSize(0) has returned the offset 400 with
\* the size 6 that the tile's leader holds, where TileByteCounts[0] is 9
C5_Witness ==
    /\ tileLeaderByteSize(tiff) > 0
    /\ SizeOfTile(done) /\ done.img = 1 /\ done.x = 0
    /\ done.res = Arr(<<400, 6>>)
    /\ tiff.images[1].tags[TileOffsets].isLoaded

FetchTasks == {k \in tasks : k.op = "fetch"}
\* the calls a and b are fetches of the same tag of the same image
SameTag(a, b) == a.img = b.img /\ a.x = b.x

\* the part of C6 every fetch(tag) call meets: the calls that have returned
\* returned equal values, and the value is cached: value(tag) returns it and
\* a further fetch(tag) needs no Source
FetchReturnsCached ==
    /\ \A a, b \in returned : a.res = b.res
    /\ \A e \in returned :
          /\ fetchSite(tiff.images[e.img], e.x) = "none"
          /\ value(tiff.images[e.img], e.x) = e.res

\* C6 as claimed: any two calls to image.fetch(tag), however they interleave,
\* return equal values and cause at most one Source fetch of the tag's payload
\* between them, and once a fetch has completed the value is cached.
C6_TwoCallsOneFetch ==
    /\ FetchReturnsCached
    /\ \A a, b \in FetchTasks : SameTag(a, b) /\ a.log # {} /\ b.log # {} => a = b
    /\ \A a \in FetchTasks : \A e \in returned : SameTag(a, e) => a.log = {} \/ e.log = {}

\* C6 amended: any two calls to image.fetch(tag) return equal values, and a
\* call made after a call for the tag has returned causes no Source fetch:
\* the value is cached and value(tag) returns it.  Only a call made before
\* any has returned goes to the Source, with one fetch of the payload.
C6_FetchCachedOnceReturned ==
    /\ FetchReturnsCached
    /\ \A k \in FetchTasks : k.y = 0 /\ Cardinality(k.log) = 1
    /\ \A e \in returned : Cardinality(e.log) <= 1 /\ (e.y = 1 => e.log = {})

\* fetch(TileOffsets) has gone to the Source and returned the array, and a
\* later fetch(TileOffsets) has returned it without a Source fetch
C6_Witness ==
    /\ \E e \in returned : e.x = TileOffsets /\ e.y = 0 /\ e.log # {}
                           /\ e.res = Arr(<<400, 440, 0, 0>>)
    /\ \E e \in returned : e.x = TileOffsets /\ e.y = 1 /\ e.log = {}

\* the base image has a resolution of its own
BaseLocated ==
    \/ ~IsNull(value(tiff.images[1], ModelPixelScale))
    \/ ~IsNull(value(tiff.images[1], ModelTransformation))
\* the x resolution of the base image in hundredths, and the image widths
\* (image numbers from 1)
BaseResX ==
    IF ~IsNull(value(tiff.images[1], ModelPixelScale))
    THEN value(tiff.images[1], ModelPixelScale).v[1]
    ELSE IF ~IsNull(value(tiff.images[1], ModelTransformation))
    THEN value(tiff.images[1], ModelTransformation).v[1]
    ELSE 0
WidthOf(i) ==
    IF IsNum(value(tiff.images[i], ImageWidth)) THEN value(tiff.images[i], ImageWidth).v[1]
    ELSE 0
\* the overviews whose x resolution, base resolution * base width / width,
\* is at most r + 0.01
Qualifying(r) ==
    {i \in 2..Len(tiff.images) : BaseResX * WidthOf(1) <= (r + 1) * WidthOf(i)}
\* what the claim has getImageByResolution(r) return: the coarsest
\* qualifying overview, the base image if there is none
Expected(r) ==
    IF Qualifying(r) = {} THEN 1
    ELSE CHOOSE i \in Qualifying(r) : \A j \in Qualifying(r) : j <= i

\* C8 as claimed: after init with at least one image, getImageByResolution(r)
\* returns the first image, scanning from the last overview to index 1, whose
\* x resolution is at most r + 0.01, and images[0] if none is.
C8_ByResolution ==
    done.op = "getImageByResolution" /\ Len(tiff.images) >= 1
        => done.res = Num(Expected(done.x))

\* C8 amended: the same, for a reader whose base image has a resolution of
\* its own (ModelPixelScale or ModelTransformation); without one the call
\* throws 'Image does not have a geo transformation.'
C8_ByResolutionLocated ==
    done.op = "getImageByResolution" /\ Len(tiff.images) >= 1 =>
        IF BaseLocated
        THEN /\ done.res = Num(Expected(done.x))
             /\ done.res.v[1] \in 1..Len(tiff.images)
             /\ done.res.v[1] = 1 => Qualifying(done.x) = {}
        ELSE IsErr(done.res)

\* of three images, the scan has passed over the last, which is too coarse
\* for 2.00, and returned the middle one
C8_Witness ==
    /\ done.op = "getImageByResolution" /\ done.x = 200
    /\ Len(tiff.images) = 3 /\ BaseLocated
    /\ Qualifying(done.x) = {2}
    /\ done.res = Num(2)

\* the call c is getStrip(i) on an untiled image of known compression, for
\* an i of the strip arrays
StripCall(c) ==
    /\ c.op = "getStrip"
    /\ ~isTiled(tiff.images[c.img])
    /\ ~IsNull(compression(tiff.images[c.img]))
    /\ HasTag(tiff.images[c.img], StripOffsets)
    /\ HasTag(tiff.images[c.img], StripByteCounts)
    /\ 0 <= c.x /\ c.x < tiff.images[c.img].tags[StripByteCounts].count
StripOffsetOf(c) == FileElem(source, tiff.images[c.img].tags[StripOffsets], c.x)
StripByteCountOf(c) == FileElem(source, tiff.images[c.img].tags[StripByteCounts], c.x)
\* the call c has fetched the strip and nothing else in its place, and
\* returns the strip's bytes
StripFetched(c) ==
    /\ BodyFetches(c.log) = {[site |-> "getBytes", tag |-> 0,
                              offset |-> StripOffsetOf(c), length |-> StripByteCountOf(c)]}
    /\ c.res = Arr(FileBytes(source, StripOffsetOf(c), StripByteCountOf(c)))

JpegTile(c) ==
    /\ c.op = "getTile" /\ OnTiled(c) /\ InGrid(c)
    /\ compression(tiff.images[c.img]) = Num(CompressionJpeg)
    /\ HasTag(tiff.images[c.img], JPEGTables)
    /\ HasTag(tiff.images[c.img], TileOffsets)
    /\ HasTag(tiff.images[c.img], TileByteCounts)
    /\ ~SparseTile(c)
\* the JPEGTables of the call's image and the stored payload of its tile, as
\* the file has them
JpegTablesOf(c) ==
    IF tiff.images[c.img].tags[JPEGTables].type = "inline"
    THEN tiff.images[c.img].tags[JPEGTables].value.v
    ELSE FileBytes(source, tiff.images[c.img].tags[JPEGTables].dataOffset,
                   tiff.images[c.img].tags[JPEGTables].count)
TilePayloadOf(c) ==
    FileBytes(source,
              FileElem(source, tiff.images[c.img].tags[TileOffsets],
                       c.y * nxTiles(tiff.images[c.img]) + c.x),
              FileElem(source, tiff.images[c.img].tags[TileByteCounts],
                       c.y * nxTiles(tiff.images[c.img]) + c.x))
\* JPEGTables[0 .. L-2) followed by payload[2 .. T)
Spliced(tables, payload) ==
    SubSeq(tables, 1, Len(tables) - 2) \o SubSeq(payload, 3, Len(payload))

\* C11: after init and with no other call made before it, getTile on a tile
\* of the grid that is not sparse, of an image with Compression = JPEG,
\* returns JPEGTables[0 .. L-2) followed by payload[2 .. T), L + T - 4 bytes.
C11_JpegTileSpliced ==
    JpegTile(done) /\ tileLeaderByteSize(tiff) = 0 =>
        /\ done.res = Arr(Spliced(JpegTablesOf(done), TilePayloadOf(done)))
        /\ Len(done.res.v) = Len(JpegTablesOf(done)) + Len(TilePayloadOf(done)) - 4

\* a step that is a loadGeoTiffTags() call on an image on which the call has
\* run before changes nothing, fetches nothing and does not fail
LoadAgainStep ==
    done'.op = "loadGeoTiffTags" /\ tiff.images[done'.img].isGeoTagsLoaded
        => tiff' = tiff /\ inflight' = inflight /\ done'.res = Null
\* a step that is a valueGeo(key) call fails when loadGeoTiffTags() has not
\* run on the image, and only then
ValueGeoStep ==
    done'.op = "valueGeo"
        => IF tiff.images[done'.img].isGeoTagsLoaded THEN ~IsErr(done'.res)
           ELSE done'.res = Err("loadGeoTiffTags() has not been called")

\* C12: a loadGeoTiffTags() call made after one has completed on the image is
\* a no-op: no Source fetch, tagsGeo and isGeoTagsLoaded as they were; and
\* valueGeo(key) fails as long as loadGeoTiffTags() has not run on the image.
C12_GeoLoadedOnce == [][done' # done => LoadAgainStep /\ ValueGeoStep]_vars

\* init has unpacked the three GeoKeys of the image, and a loadGeoTiffTags()
\* call made since has returned
C12_Witness ==
    /\ tiff.isInitialized /\ file = "geo"
    /\ done.op = "loadGeoTiffTags" /\ done.res = Null
    /\ tiff.images[1].isGeoTagsLoaded
    /\ DOMAIN tiff.images[1].tagsGeo = {1024, 1026, 2049}

\* the view of the header fetch, and whether it covers [o, o + 1024)
HeaderView == SourceFetch(source, 0, HeaderSize)
Covered(o) == HeaderView.off <= o /\ o + IfdProbeSize <= HeaderView.off + HeaderView.len
\* the length of a block fetched at o: defaultReadSize, cut at the end of the
\* source when its size is known
BlockLen(o) ==
    IF cfg.sizeKnown /\ o + cfg.defaultReadSize > source.size THEN source.size - o
    ELSE cfg.defaultReadSize
IfdFetchesAt(o) == {i \in DOMAIN initLog : initLog[i].site = "readIfd" /\ initLog[i].offset = o}
\* the IFD at o was read as the claim has it: from a block fetched at o when
\* the header view does not cover it, else with no fetch
IfdReadAt(o) ==
    IF Covered(o) THEN IfdFetchesAt(o) = {}
    ELSE /\ Cardinality(IfdFetchesAt(o)) = 1
         /\ \A i \in IfdFetchesAt(o) : initLog[i].length = BlockLen(o)
\* the view the claim has readIfd get for the IFD at o
IfdViewAt(o) == IF Covered(o) THEN HeaderView ELSE SourceFetch(source, o, BlockLen(o))

\* C13: in the IFD walk of every reader, made by create() or with an explicit
\* header size, an IFD at `next` that the header view does not cover for 1024
\* bytes is read from a block fetched at `next`, of defaultReadSize bytes cut
\* at the end of a source of known size; a covered one is read with no fetch.
C13_IfdBlock ==
    /\ \A j \in 1..Len(tiff.images) : IfdReadAt(tiff.images[j].ifd)
    /\ \A pid \in DOMAIN hdrs :
          Len(tiff.images) > 0 /\ hdrs[pid].pc \in {"loop", "ifd", "images", "resolved"}
              => hdrs[pid].lastView = IfdViewAt(tiff.images[Len(tiff.images)].ifd)

\* word i (from 0) of the GeoKeyDirectory of an image, as the file has it
GeoWord(img, i) == FileUint(source, img.tags[GeoKeyDirectory].dataOffset + 2 * i, 2)
\* the number of the last 4-tuple, of 1..numberOfKeys, that is for `key`
GeoTupleOf(img, key) ==
    CHOOSE n \in 1..GeoWord(img, 3) :
        /\ GeoWord(img, 4 * n) = key
        /\ \A m \in 1..GeoWord(img, 3) : GeoWord(img, 4 * m) = key => m <= n
\* what the claim has 4-tuple n map its key to: the value itself for the
\* location 0, the trimmed slice of a string, the doubles of a numeric array
GeoExpected(img, n) ==
    LET location == GeoWord(img, 4 * n + 1)
        count == GeoWord(img, 4 * n + 2)
        valueOrOffset == GeoWord(img, 4 * n + 3)
    IN  IF location = 0 THEN Num(valueOrOffset)
        ELSE IF img.tags[location].dataType = TypeAscii
        THEN Str(jsTrim(FileBytes(source, img.tags[location].dataOffset + valueOrOffset,
                                  count - 1)))
        ELSE Arr([k \in 1..count |->
                    FileUint(source, img.tags[location].dataOffset
                                     + (valueOrOffset + k - 1) * getTiffTagSize(img.tags[location].dataType),
                             getTiffTagSize(img.tags[location].dataType))])
\* the image's GeoKeys are those of the numberOfKeys 4-tuples, and no others
GeoUnpacked(img) ==
    /\ DOMAIN img.tagsGeo = {GeoWord(img, 4 * n) : n \in 1..GeoWord(img, 3)}
    /\ \A key \in DOMAIN img.tagsGeo :
          img.tagsGeo[key] = GeoExpected(img, GeoTupleOf(img, key))

\* C14: once loadGeoTiffTags has run, tagsGeo holds exactly the numberOfKeys
\* keys of the GeoKeyDirectory: the value itself for a key with location 0,
\* the trimmed slice [valueOrOffset, valueOrOffset + count - 1) for a key in a
\* string tag, the count doubles for a key in a numeric array.
C14_GeoKeysUnpacked ==
    \A i \in 1..Len(tiff.images) :
        tiff.images[i].isGeoTagsLoaded /\ HasTag(tiff.images[i], GeoKeyDirectory)
            => GeoUnpacked(tiff.images[i])

\* the call c is getTileBounds(x, y) for a tile of the grid of a tiled image
BoundsCall(c) == c.op = "getTileBounds" /\ OnTiled(c) /\ InGrid(c)
\* the call returns {x: x * tileWidth, y: y * tileHeight, width, height}, a
\* rectangle that is not empty, not larger than a tile and inside the image
BoundsClamped(c) ==
    LET img == tiff.images[c.img]
        b == c.res.v
    IN  /\ c.res.k = "arr" /\ Len(b) = 4
        /\ b[1] = c.x * dim(img, TileWidth) /\ b[2] = c.y * dim(img, TileHeight)
        /\ 0 < b[3] /\ b[3] <= dim(img, TileWidth)
        /\ 0 < b[4] /\ b[4] <= dim(img, TileHeight)
        /\ b[1] + b[3] <= dim(img, ImageWidth) /\ b[2] + b[4] <= dim(img, ImageHeight)
        /\ b[3] < dim(img, TileWidth) => c.x = nxTiles(img) - 1
        /\ b[4] < dim(img, TileHeight) => c.y = nyTiles(img) - 1
        /\ c.x = nxTiles(img) - 1 => b[1] + b[3] = dim(img, ImageWidth)
        /\ c.y = nyTiles(img) - 1 => b[2] + b[4] = dim(img, ImageHeight)

\* C15 as claimed: getTileBounds(x, y) of a tile of the grid returns the
\* tile's rectangle clamped to the image, and for a tile of the last column
\* the width, for a tile of the last row the height, is less than the tile's.
C15_TileBounds ==
    BoundsCall(done) =>
        /\ BoundsClamped(done)
        /\ done.x = nxTiles(tiff.images[done.img]) - 1
              => done.res.v[3] < dim(tiff.images[done.img], TileWidth)
        /\ done.y = nyTiles(tiff.images[done.img]) - 1
              => done.res.v[4] < dim(tiff.images[done.img], TileHeight)

\* C15 amended: the rectangle is clamped to the image; a tile of the last
\* column is narrower than a tile exactly when the image width is not a
\* multiple of the tile width, and so for the last row and the height.
C15_TileBoundsClamped ==
    BoundsCall(done) =>
        /\ BoundsClamped(done)
        /\ done.x = nxTiles(tiff.images[done.img]) - 1 =>
              (done.res.v[3] < dim(tiff.images[done.img], TileWidth)
                 <=> dim(tiff.images[done.img], ImageWidth)
                        % dim(tiff.images[done.img], TileWidth) # 0)
        /\ done.y = nyTiles(tiff.images[done.img]) - 1 =>
              (done.res.v[4] < dim(tiff.images[done.img], TileHeight)
                 <=> dim(tiff.images[done.img], ImageHeight)
                        % dim(tiff.images[done.img], TileHeight) # 0)

\* the last tile of the 3x5 image, one pixel wide and high, has been asked for
C15_Witness ==
    /\ BoundsCall(done) /\ done.x = 1 /\ done.y = 2
    /\ dim(tiff.images[done.img], ImageWidth) = 3
    /\ done.res = Arr(<<2, 4, 1, 1>>)

\* the IFD at o as the file has it: its tag count, and the end of its
\* next-IFD pointer
IfdCount(o) == FileUint(source, o, tiff.ifdConfig.offset)
IfdEnd(o) == o + tiff.ifdConfig.offset + IfdCount(o) * tiff.ifdConfig.ifd + tiff.ifdConfig.pointer
\* readIfd's residency check on the view v for the IFD at o
Resident(v, o) == v.off <= o /\ o + IfdCount(o) * tiff.ifdConfig.ifd <= v.off + v.len
\* the tag count, the entries and the next-IFD pointer all lie in the view
IfdInside(v, o) == v.off <= o /\ IfdEnd(o) <= v.off + v.len
\* the latest readIfd call of h was as the claim has it
IfdReadSafely(h) ==
    IF Resident(h.lastView, h.lastIfd)
    THEN IfdInside(h.lastView, h.lastIfd)
    ELSE /\ h.pc = "rejected" /\ h.what = "IFD out of range"
         /\ \A i \in 1..Len(tiff.images) : tiff.images[i].ifd # h.lastIfd

\* C16: readIfd never reads outside its view: when its residency check
\* passes, the tag count, the entries and the next-IFD pointer lie inside the
\* view; otherwise it fails with 'IFD out of range' and appends no image.
C16_IfdInsideView ==
    \A pid \in DOMAIN hdrs : hdrs[pid].lastIfd # 0 => IfdReadSafely(hdrs[pid])

\* the offsets of the IFDs of the file, following the chain from offset o
IfdConfigOf(f) ==
    IF FileUint(f, 2, 2) = TiffVersionBigTiff THEN TagTiffBigConfig ELSE TagTiffConfig
RECURSIVE FileChain(_, _)
FileChain(f, o) ==
    IF o = 0 THEN <<>>
    ELSE <<o>> \o FileChain(f, FileUint(f, o + IfdConfigOf(f).offset
                                             + FileUint(f, o, IfdConfigOf(f).offset)
                                               * IfdConfigOf(f).ifd,
                                        IfdConfigOf(f).pointer))
IfdChain(f) ==
    IF HeaderInvalid(f) THEN <<>>
    ELSE IF FileUint(f, 2, 2) = TiffVersionBigTiff THEN FileChain(f, FileUint(f, 8, 8))
    ELSE FileChain(f, FileUint(f, 4, 4))

\* what makes an image the element of `images` it is: its id, the IFD it was
\* read from, and its tags' entries; not the values fetched into them since
TagEntry(tag) ==
    [id |-> tag.id, dataType |-> tag.dataType, count |-> tag.count,
     type |-> tag.type, dataOffset |-> tag.dataOffset]
ImageIdent(img) ==
    [id |-> img.id, ifd |-> img.ifd,
     tags |-> [id \in DOMAIN img.tags |-> TagEntry(img.tags[id])]]
Idents(images) == [i \in 1..Len(images) |-> ImageIdent(images[i])]

\* one step that changes the reader, as to `images`
ImagesStep ==
    /\ IF tiff.isInitialized
       THEN Idents(tiff'.images) = Idents(tiff.images)
       ELSE /\ Len(tiff'.images) \in {Len(tiff.images), Len(tiff.images) + 1}
            /\ SubSeq(Idents(tiff'.images), 1, Len(tiff.images)) = Idents(tiff.images)
    /\ Len(tiff'.images) <= Len(IfdChain(source))
    /\ \A i \in 1..Len(tiff'.images) :
          /\ tiff'.images[i].id = i - 1
          /\ tiff'.images[i].ifd = IfdChain(source)[i]
    /\ tiff'.isInitialized => Len(tiff'.images) = Len(IfdChain(source))

\* C10: images changes only by appending during init, one image per IFD read:
\* images[i] is the i-th IFD of the chain and has id i; once init has
\* resolved, no call (init, getImageByResolution, getResolutions, fetch,
\* loadGeoTiffTags, getTile, hasTile, getStrip, getTileSize) changes the
\* length, the order or the elements of images.
C10_ImagesAppendOnly == [][tiff' # tiff => ImagesStep]_vars

\* a reader of three images, all read from the chain, has served a tile
C10_Witness ==
    /\ tiff.isInitialized
    /\ Len(tiff.images) = 3 /\ Len(IfdChain(source)) = 3
    /\ done.op = "getTile" /\ done.res.k = "arr"

\* the promise init() returned to caller c is settled
InitSettled(c) == initCalls[c] # 0 /\ hdrs[initCalls[c]].pc \in {"resolved", "rejected"}

\* image.init() of image i is over: nothing it fetches is in flight and its
\* GeoKeys are unpacked
ImageInitOver(i) ==
    /\ tiff.images[i].isGeoTagsLoaded
    /\ \A r \in inflight : ~(r.by = "init" /\ r.img = i)

\* a readHeader call lost an IFD read or an image init
InitFailed(h) == h.failed \/ h.pc = "rejected" \/ h.what # ""

\* isInitialized is set by a readHeader call that read the whole chain and
\* saw every image init through
InitializedWhole ==
    tiff.isInitialized =>
        /\ Len(tiff.images) = Len(IfdChain(source))
        /\ \A i \in 1..Len(tiff.images) : ImageInitOver(i)
        /\ \A pid \in DOMAIN hdrs : ~InitFailed(hdrs[pid])
        /\ \E pid \in DOMAIN hdrs :
              hdrs[pid].pc = "resolved" /\ hdrs[pid].imgDone = 1..Len(tiff.images)

\* C17: when every fetch completes (and the IFD chain ends with a zero pointer
\* after n IFDs, as in every file here), the promise of each init() call is
\* eventually resolved or rejected; while isInitialized is true images has n
\* elements, the init of each image is over with isGeoTagsLoaded set, and no
\* IFD read or image init of the readHeader call has failed.
C17_InitSettles ==
    /\ []InitializedWhole
    /\ \A c \in 1..MaxInitCallers : (initCalls[c] # 0) ~> InitSettled(c)

\* both callers hold the resolved promise of a reader of three images, the
\* init of each of which ended with its GeoKeys unpacked
C17_Witness ==
    /\ \A c \in 1..MaxInitCallers : InitSettled(c) /\ hdrs[initCalls[c]].pc = "resolved"
    /\ tiff.isInitialized /\ Len(IfdChain(source)) = 3
    /\ hdrs[initCalls[1]].imgDone = 1..3
    /\ \A i \in 1..3 : tiff.images[i].isGeoTagsLoaded

====
